---- MODULE Spec2Model ----
(***************************************************************************)
(* Model of the OmniConvert component (src/App.tsx) and of its content     *)
(* extractor (src/services/geminiService.ts).                              *)
(*                                                                         *)
(* Text is modelled character by character: a string is a sequence of      *)
(* one-character strings, so that the regular-expression replacements, the *)
(* trimming and the case folding of the source are computed, not assumed.  *)
(* Constant templates (the Office-HTML envelope, the render-root wrapper)  *)
(* are single bracketed tokens: no replacement of the source looks inside  *)
(* them.                                                                   *)
(***************************************************************************)
EXTENDS Integers, Sequences, FiniteSets, TLC

(***************************************************************************)
(* Bounds of the model.                                                    *)
(***************************************************************************)
\* attempts started in one behaviour
MaxAttempts == 2
\* largest scaled image height (pdfHeight) a snapshot yields
MaxPdfHeight == 6
\* largest page height the PDF library reports
MaxPageHeight == 3
\* tokens (tags and characters of text) of a generated fragment
MaxTokens == 3

(***************************************************************************)
(* Characters and JavaScript string primitives.                            *)
(***************************************************************************)
\* the characters JavaScript's \s and trim() treat as white space (those used)
Whitespace == {" ", "\n", "\t"}

\* the only element of a one-element set; The({F(v) : v \in {e}}) computes F on
\* the value of e, evaluated once
The(S) == CHOOSE x \in S : TRUE

LowerOf ==
  [c \in {"A", "B", "C", "D", "F", "G", "H", "I", "J", "L", "M", "N", "O", "P",
          "R", "S", "T", "U", "X"} |->
     CASE c = "A" -> "a" [] c = "B" -> "b" [] c = "C" -> "c" [] c = "D" -> "d"
       [] c = "F" -> "f" [] c = "G" -> "g" [] c = "H" -> "h" [] c = "I" -> "i"
       [] c = "J" -> "j" [] c = "L" -> "l" [] c = "M" -> "m" [] c = "N" -> "n"
       [] c = "O" -> "o" [] c = "P" -> "p" [] c = "R" -> "r" [] c = "S" -> "s"
       [] c = "T" -> "t" [] c = "U" -> "u" [] c = "X" -> "x"]

ToLowerChar(c) == IF c \in DOMAIN LowerOf THEN LowerOf[c] ELSE c

\* String.prototype.toLowerCase
ToLowerCase(s) == The({[i \in 1..Len(v) |-> ToLowerChar(v[i])] : v \in {s}})

\* String.prototype.endsWith
EndsWith(s, suffix) ==
  /\ Len(s) >= Len(suffix)
  /\ SubSeq(s, Len(s) - Len(suffix) + 1, Len(s)) = suffix

\* least index >= i of s that holds the character c, 0 when there is none
RECURSIVE IndexOfChar(_, _, _)
IndexOfChar(s, c, i) ==
  IF i > Len(s) THEN 0 ELSE IF s[i] = c THEN i ELSE IndexOfChar(s, c, i + 1)

\* s.split(sep)[0]: the part of s before the first occurrence of the character sep
SplitFirst(s, sep) ==
  The({IF IndexOfChar(v, sep, 1) = 0 THEN v ELSE SubSeq(v, 1, IndexOfChar(v, sep, 1) - 1) :
         v \in {s}})

\* first index >= i of s that holds no white space
RECURSIVE SkipWs(_, _)
SkipWs(s, i) == IF i <= Len(s) /\ s[i] \in Whitespace THEN SkipWs(s, i + 1) ELSE i

\* last index <= i of s that holds no white space, 0 when there is none
RECURSIVE SkipWsBack(_, _)
SkipWsBack(s, i) == IF i >= 1 /\ s[i] \in Whitespace THEN SkipWsBack(s, i - 1) ELSE i

TrimStart(s) == The({SubSeq(v, SkipWs(v, 1), Len(v)) : v \in {s}})

TrimEnd(s) == The({SubSeq(v, 1, SkipWsBack(v, Len(v))) : v \in {s}})

\* String.prototype.trim
Trim(s) == TrimEnd(TrimStart(s))

\* a || b on strings: the empty string is falsy
OrElse(a, b) == IF a = "" THEN b ELSE a

(***************************************************************************)
(* Regular-expression replacements of the source.                          *)
(***************************************************************************)
\* the literal pattern pat (in lower case) matches s at index i, whatever the case
MatchesAt(s, i, pat) ==
  /\ i + Len(pat) - 1 <= Len(s)
  /\ \A k \in 1..Len(pat) : ToLowerChar(s[i + k - 1]) = pat[k]

RECURSIVE ReplaceLiteralFrom(_, _, _, _)
ReplaceLiteralFrom(s, i, pat, rep) ==
  IF i > Len(s) THEN <<>>
  ELSE IF MatchesAt(s, i, pat)
       THEN rep \o ReplaceLiteralFrom(s, i + Len(pat), pat, rep)
       ELSE <<s[i]>> \o ReplaceLiteralFrom(s, i + 1, pat, rep)

\* s.replace(/pat/gi, rep) for a literal pattern pat given in lower case
ReplaceLiteralCI(s, pat, rep) == The({ReplaceLiteralFrom(v, 1, pat, rep) : v \in {s}})

\* index of the last character of the match of /<br\s*\/?>/i at index i of s, 0
\* when there is none
BrMatchEnd(s, i) ==
  IF i + 3 <= Len(s) /\ s[i] = "<" /\ ToLowerChar(s[i + 1]) = "b"
       /\ ToLowerChar(s[i + 2]) = "r"
  THEN LET j == SkipWs(s, i + 3)
           k == IF j <= Len(s) /\ s[j] = "/" THEN j + 1 ELSE j
       IN  IF k <= Len(s) /\ s[k] = ">" THEN k ELSE 0
  ELSE 0

RECURSIVE ReplaceBrFrom(_, _, _)
ReplaceBrFrom(s, i, rep) ==
  IF i > Len(s) THEN <<>>
  ELSE IF BrMatchEnd(s, i) > 0
       THEN rep \o ReplaceBrFrom(s, BrMatchEnd(s, i) + 1, rep)
       ELSE <<s[i]>> \o ReplaceBrFrom(s, i + 1, rep)

\* s.replace(/<br\s*\/?>/gi, rep)
ReplaceBr(s, rep) == The({ReplaceBrFrom(v, 1, rep) : v \in {s}})

\* index of the last character of the match of /<[^>]+>/ at index i of s, 0 when
\* there is none
TagMatchEnd(s, i) ==
  IF i + 2 <= Len(s) /\ s[i] = "<" /\ s[i + 1] # ">" THEN IndexOfChar(s, ">", i + 2)
  ELSE 0

RECURSIVE StripTagsFrom(_, _)
StripTagsFrom(s, i) ==
  IF i > Len(s) THEN <<>>
  ELSE IF TagMatchEnd(s, i) > 0
       THEN StripTagsFrom(s, TagMatchEnd(s, i) + 1)
       ELSE <<s[i]>> \o StripTagsFrom(s, i + 1)

\* s.replace(/<[^>]+>/g, EMPTY)
StripTags(s) == The({StripTagsFrom(v, 1) : v \in {s}})

(***************************************************************************)
(* Types of the component (src/types.ts) and its constants.                *)
(***************************************************************************)
FORMATS == {"PDF", "DOCX", "TXT", "JPG", "PNG", "MD"}

\* the characters of each FileFormat literal
FormatChars ==
  [fmt \in FORMATS |->
     CASE fmt = "PDF"  -> <<"P", "D", "F">>
       [] fmt = "DOCX" -> <<"D", "O", "C", "X">>
       [] fmt = "TXT"  -> <<"T", "X", "T">>
       [] fmt = "JPG"  -> <<"J", "P", "G">>
       [] fmt = "PNG"  -> <<"P", "N", "G">>
       [] fmt = "MD"   -> <<"M", "D">>]

SUPPORTED_BINARY_MIMES == {"application/pdf", "image/png", "image/jpeg", "image/webp"}

\* file === null
NoFile == [name |-> <<>>, type |-> "", text |-> <<>>, docText |-> <<>>, mammothOk |-> FALSE]

\* the value of useState<ConversionState> with its optional fields absent:
\* error "" , resultUrl 0 and resultName <<>> stand for undefined
ConversionOf(status, progress) ==
  [status |-> status, progress |-> progress, error |-> "", resultUrl |-> 0,
   resultName |-> <<>>]

(***************************************************************************)
(* Messages (English stand-ins of the source's literals).                  *)
(***************************************************************************)
DocUnsupportedMessage == "legacy .doc is not supported: save the file as .docx and retry"
EmptyContentMessage == "file content is empty or cannot be recognised"
EmptyResponseMessage == "AI conversion failed: empty response"
BusyMessage == "server busy, the request was refused: retry"
TimeoutMessage == "file processing timed out: try a smaller file or reload"

(***************************************************************************)
(* Pure functions of startConversion.                                      *)
(***************************************************************************)
DotDoc == <<".", "d", "o", "c">>
DotDocx == <<".", "d", "o", "c", "x">>

\* IsLegacyDoc without toLowerCase
IsLegacyDocCaseSensitive(name) == EndsWith(name, DotDoc)

\* selectedFile.name.toLowerCase().endsWith('.doc')
IsLegacyDoc(name) == EndsWith(ToLowerCase(name), DotDoc)

\* file.name.split('.')[0]
FileNameBase(name) == SplitFirst(name, ".")

\* resultName: fileNameBase, a dot, targetFormat.toLowerCase()
ResultName(name, fmt) == FileNameBase(name) \o <<".">> \o ToLowerCase(FormatChars[fmt])

\* the while loop of the PDF branch: pages holds the vertical offset of the image on
\* each page added so far
\* PaginateLoop when the position is taken from the page height
RECURSIVE PaginateLoopByPage(_, _, _, _)
PaginateLoopByPage(pages, heightLeft, pdfHeight, pageHeight) ==
  IF heightLeft >= 0
  THEN PaginateLoopByPage(Append(pages, heightLeft - pageHeight), heightLeft - pageHeight,
                          pdfHeight, pageHeight)
  ELSE pages

RECURSIVE PaginateLoop(_, _, _, _)
PaginateLoop(pages, heightLeft, pdfHeight, pageHeight) ==
  IF heightLeft >= 0
  THEN PaginateLoop(Append(pages, heightLeft - pdfHeight), heightLeft - pageHeight,
                    pdfHeight, pageHeight)
  ELSE pages

\* Paginate without the subtraction of the first page before the loop
PaginateFromFullHeight(pdfHeight, pageHeight) ==
  PaginateLoop(<<0>>, pdfHeight, pdfHeight, pageHeight)

\* the PDF pagination: the first addImage at position 0, then the loop
Paginate(pdfHeight, pageHeight) ==
  PaginateLoop(<<0>>, pdfHeight - pageHeight, pdfHeight, pageHeight)

\* the Office-HTML envelope around the fragment, after the byte-order mark
DocxEncode(htmlContent) ==
  <<"[BOM]", "[office-html head]", "[body]">> \o htmlContent \o <<"[/body]", "[/html]">>

\* MdEncode when the generic tag strip runs before the rewrites
MdEncodeStripFirst(htmlContent) == StripTags(htmlContent)

\* the Markdown substitutions, in the order of the source
MdEncode(htmlContent) ==
  LET s1 == ReplaceLiteralCI(htmlContent, <<"<", "h", "1", ">">>, <<"#", " ">>)
      s2 == ReplaceLiteralCI(s1, <<"<", "/", "h", "1", ">">>, <<"\n", "\n">>)
      s3 == ReplaceLiteralCI(s2, <<"<", "h", "2", ">">>, <<"#", "#", " ">>)
      s4 == ReplaceLiteralCI(s3, <<"<", "/", "h", "2", ">">>, <<"\n", "\n">>)
      s5 == ReplaceLiteralCI(s4, <<"<", "p", ">">>, <<>>)
      s6 == ReplaceLiteralCI(s5, <<"<", "/", "p", ">">>, <<"\n", "\n">>)
      s7 == ReplaceBr(s6, <<"\n">>)
      s8 == ReplaceLiteralCI(s7, <<"<", "l", "i", ">">>, <<"*", " ">>)
      s9 == ReplaceLiteralCI(s8, <<"<", "/", "l", "i", ">">>, <<"\n">>)
  IN  StripTags(s9)

\* the plain-text substitutions, in the order of the source
TxtEncode(htmlContent) ==
  LET s1 == ReplaceBr(htmlContent, <<"\n">>)
      s2 == ReplaceLiteralCI(s1, <<"<", "/", "p", ">">>, <<"\n">>)
  IN  Trim(StripTags(s2))

\* a Blob: text for the text families, image (the captured surface) and pages (the
\* image offsets) for the raster families
BlobOf(type, text, image, pages) ==
  [type |-> type, text |-> text, image |-> image, pages |-> pages]

\* the Blob of pdf.output: the image, its scaled height, the page height and the
\* vertical offset of the image on each page
PdfBlobOf(image, pdfHeight, pageHeight, pages) ==
  [type |-> "application/pdf", text |-> <<>>, image |-> image, pages |-> pages,
   pdfHeight |-> pdfHeight, pageHeight |-> pageHeight]

\* the Blob of a revoked object URL
NoBlob == BlobOf("", <<>>, <<>>, <<>>)

(***************************************************************************)
(* The content extractor (src/services/geminiService.ts).                  *)
(***************************************************************************)
\* the backquote character (written as a token)
Backquote == "[backquote]"

\* the Markdown code fence: three backquotes
Fence == <<Backquote, Backquote, Backquote>>

\* the first replace: an opening fence followed by html (any case) and white space
StripFenceHtml(s) ==
  IF Len(s) >= 7 /\ ToLowerCase(SubSeq(s, 1, 7)) = Fence \o <<"h", "t", "m", "l">>
  THEN TrimStart(SubSeq(s, 8, Len(s)))
  ELSE s

\* the second replace: an opening fence and white space
StripFenceOpen(s) ==
  IF Len(s) >= 3 /\ SubSeq(s, 1, 3) = Fence THEN TrimStart(SubSeq(s, 4, Len(s))) ELSE s

\* the third replace: white space and a closing fence
StripFenceClose(s) ==
  IF EndsWith(s, Fence) THEN TrimEnd(SubSeq(s, 1, Len(s) - 3)) ELSE s

\* the clean-up of the response of the model
CleanResponse(s) == Trim(StripFenceClose(StripFenceOpen(StripFenceHtml(s))))

\* the text handed to the model for a file that is not sent as inline data
ExtractedText(f) ==
  IF EndsWith(ToLowerCase(f.name), DotDocx) /\ f.mammothOk THEN f.docText ELSE f.text

Resolved(html) == [ok |-> TRUE, html |-> html, message |-> ""]
Rejected(message) == [ok |-> FALSE, html |-> <<>>, message |-> message]

\* reconstructContentToHtml without its two checks for empty content
reconstructWithoutEmptyChecks(f, outcome) ==
  IF outcome.kind = "reject" THEN Rejected(OrElse(outcome.message, BusyMessage))
  ELSE Resolved(CleanResponse(IF outcome.kind = "text" THEN outcome.text ELSE <<>>))

\* reconstructContentToHtml(file, targetFormat), given what its awaited calls yield:
\* outcome.kind is "text" (response.text is outcome.text), "notext" (response.text
\* is undefined) or "reject" (an awaited call rejects with outcome.message)
reconstructContentToHtml(f, outcome) ==
  IF outcome.kind = "reject" THEN Rejected(OrElse(outcome.message, BusyMessage))
  ELSE IF f.type \notin SUPPORTED_BINARY_MIMES /\ Trim(ExtractedText(f)) = <<>>
       THEN Rejected(OrElse(EmptyContentMessage, BusyMessage))
       ELSE LET result == CleanResponse(IF outcome.kind = "text" THEN outcome.text
                                        ELSE <<>>)
            IN  IF result = <<>> THEN Rejected(OrElse(EmptyResponseMessage, BusyMessage))
                ELSE Resolved(result)

(***************************************************************************)
(* Inputs: the files a user selects and what the awaited calls yield.      *)
(***************************************************************************)
UploadOf(name, type, text, docText, mammothOk) ==
  [name |-> name, type |-> type, text |-> text, docText |-> docText,
   mammothOk |-> mammothOk]

LegacyDocUpload == UploadOf(<<"r", ".", "d", "o", "c">>, "application/msword", <<"x">>, <<>>, FALSE)
UpperDocUpload == UploadOf(<<"R", ".", "D", "O", "C">>, "application/msword", <<"x">>, <<>>, FALSE)
DocxUpload == UploadOf(<<"a", ".", "d", "o", "c", "x">>, "application/vnd.openxmlformats-officedocument.wordprocessingml.document", <<"P", "K">>, <<"x">>, TRUE)
DottedTxtUpload == UploadOf(<<"a", ".", "b", ".", "t", "x", "t">>, "text/plain", <<"x">>, <<>>, FALSE)
PdfUpload == UploadOf(<<"s", ".", "p", "d", "f">>, "application/pdf", <<>>, <<>>, FALSE)
BlankTxtUpload == UploadOf(<<"e", ".", "t", "x", "t">>, "text/plain", <<" ", "\n">>, <<>>, FALSE)

Uploads ==
  {LegacyDocUpload, UpperDocUpload, DocxUpload, DottedTxtUpload, PdfUpload, BlankTxtUpload}

\* <h1>T</h1><p>a<br/>b</p>
HeadingFragment ==
  <<"<", "h", "1", ">", "T", "<", "/", "h", "1", ">", "<", "p", ">", "a",
    "<", "b", "r", "/", ">", "b", "<", "/", "p", ">">>
\* <ul><li>x</li></ul>
ListFragment ==
  <<"<", "u", "l", ">", "<", "l", "i", ">", "x", "<", "/", "l", "i", ">",
    "<", "/", "u", "l", ">">>
\* <script>x</script>
ScriptFragment ==
  <<"<", "s", "c", "r", "i", "p", "t", ">", "x", "<", "/", "s", "c", "r", "i", "p", "t", ">">>
\* a fenced answer: the fence, html, a newline, <p>a</p>, a newline, the fence
FencedFragment ==
  Fence \o <<"h", "t", "m", "l", "\n", "<", "p", ">", "a", "<", "/", "p", ">", "\n">> \o Fence
\* white space only
BlankFragment == <<" ", "\n">>

\* a paragraph whose text holds a greater-than sign: <p>x>y</p>
ComparisonFragment == <<"<", "p", ">", "x", ">", "y", "<", "/", "p", ">">>

Responses ==
  {HeadingFragment, ListFragment, ScriptFragment, FencedFragment, BlankFragment,
   ComparisonFragment}

OutcomeOf(kind, text, message) == [kind |-> kind, text |-> text, message |-> message]

\* what the awaited calls of the extractor yield
Outcomes ==
  {OutcomeOf("text", r, "") : r \in Responses}
    \cup {OutcomeOf("notext", <<>>, ""), OutcomeOf("reject", <<>>, "quota exceeded"),
          OutcomeOf("reject", <<>>, "")}

ShotOf(ok, pdfHeight, pageHeight, message) ==
  [ok |-> ok, pdfHeight |-> pdfHeight, pageHeight |-> pageHeight, message |-> message]

\* what html2canvas and the PDF library yield: a canvas whose scaled height is
\* pdfHeight and a page of height pageHeight (whole units), or a rejection
Shots ==
  {ShotOf(TRUE, h, p, "") : h \in 1..MaxPdfHeight, p \in 1..MaxPageHeight}
    \cup {ShotOf(FALSE, 0, 0, "canvas capture failed"), ShotOf(FALSE, 0, 0, "")}

\* what fetch(dataUrl) and res.blob() yield: "" for a value, otherwise the message of
\* the rejection ("?" stands for a rejection without message)
Settlements == {"", "network error", "?"}

(***************************************************************************)
(* State of the component.                                                 *)
(***************************************************************************)
VARIABLES
  file,            \* useState<AppFile | null>
  targetFormat,    \* useState<FileFormat>
  conversion,      \* useState<ConversionState>
  previewHtml,     \* useState<string>
  hiddenRender,    \* hiddenRenderRef.current.innerHTML
  attempts,        \* the calls of startConversion, each with its closure and position
  objectUrls,      \* the object URLs created so far: the Blob of each and whether revoked
  extractorCalls   \* names of the files reconstructContentToHtml was called with

vars ==
  <<file, targetFormat, conversion, previewHtml, hiddenRender, attempts, objectUrls,
    extractorCalls>>

\* the call of startConversion: the file and targetFormat of its closure, the
\* htmlContent it awaited and the surface html2canvas was called on
AttemptOf(pc, f, fmt, htmlContent, canvas) ==
  [pc |-> pc, file |-> f, targetFormat |-> fmt, htmlContent |-> htmlContent,
   canvas |-> canvas]

\* a call of startConversion that has returned
Returned == AttemptOf("returned", NoFile, "PDF", <<>>, <<>>)

Init ==
  /\ file = NoFile
  /\ targetFormat = "PDF"
  /\ conversion = ConversionOf("idle", 0)
  /\ previewHtml = <<>>
  /\ hiddenRender = <<>>
  /\ attempts = <<>>
  /\ objectUrls = <<>>
  /\ extractorCalls = {}

(***************************************************************************)
(* Values written by the handlers.                                         *)
(***************************************************************************)
\* the rejection of a legacy .doc file in handleFiles
RejectedConversion == [ConversionOf("error", 0) EXCEPT !.error = DocUnsupportedMessage]

\* setConversion(prev => ({ ...prev, progress: 50 }))
ExtractedConversion(prev) == [prev EXCEPT !.progress = 50]

\* the write that ends a successful attempt
CompletedConversion(resultUrl, resultName) ==
  [ConversionOf("completed", 100) EXCEPT !.resultUrl = resultUrl, !.resultName = resultName]

\* CatchConversion when the catch block only logs the error
CatchSwallowed(message) == conversion

\* CatchConversion without the fallback message
CatchWithoutFallback(message) == [ConversionOf("error", 0) EXCEPT !.error = message]

\* CatchConversion when the catch block spreads the previous state
CatchKeepingProgress(message) ==
  [conversion EXCEPT !.status = "error", !.error = OrElse(message, TimeoutMessage)]

\* the write of the catch block
CatchConversion(message) ==
  [ConversionOf("error", 0) EXCEPT !.error = OrElse(message, TimeoutMessage)]

\* RenderRoot when the wrapper is appended to what the container holds
RenderRootAppended(htmlContent) ==
  hiddenRender \o <<"[div#render-root]">> \o htmlContent \o <<"[/div]">>

\* the innerHTML written into the hidden container
RenderRoot(htmlContent) == <<"[div#render-root]">> \o htmlContent \o <<"[/div]">>

\* document.getElementById(renderRootId) finds the node
RenderRootPresent == \E i \in DOMAIN hiddenRender : hiddenRender[i] = "[div#render-root]"

\* URL.createObjectURL: the new URL is the next index of objectUrls
CreateObjectURL(urls, blob) == Append(urls, [blob |-> blob, revoked |-> FALSE])

\* URL.revokeObjectURL
RevokeObjectURL(urls, url) == [urls EXCEPT ![url] = [blob |-> NoBlob, revoked |-> TRUE]]

\* the MIME type of the image branch
ImageMime(fmt) == IF fmt = "JPG" THEN "image/jpeg" ELSE "image/png"

(***************************************************************************)
(* The handlers.                                                           *)
(***************************************************************************)
\* handleFiles(files): files is the FileList, <<>> when null or empty
handleFiles(files) ==
  IF Len(files) = 0 THEN UNCHANGED vars
  ELSE LET selectedFile == files[1]
       IN  IF IsLegacyDoc(selectedFile.name)
           THEN /\ conversion' = RejectedConversion
                /\ UNCHANGED <<file, targetFormat, previewHtml, hiddenRender, attempts,
                               objectUrls, extractorCalls>>
           ELSE /\ file' = selectedFile
                /\ conversion' = ConversionOf("idle", 0)
                /\ previewHtml' = <<>>
                /\ UNCHANGED <<targetFormat, hiddenRender, attempts, objectUrls,
                               extractorCalls>>

setTargetFormat(fmt) ==
  /\ targetFormat' = fmt
  /\ UNCHANGED <<file, conversion, previewHtml, hiddenRender, attempts, objectUrls,
                 extractorCalls>>

\* startConversion without the return on a missing file
startConversionUnguarded ==
  /\ Len(attempts) < MaxAttempts
  /\ conversion' = ConversionOf("converting", 10)
  /\ attempts' = Append(attempts, AttemptOf("extract", file, targetFormat, <<>>, <<>>))
  /\ extractorCalls' = extractorCalls \cup {file.name}
  /\ UNCHANGED <<file, targetFormat, previewHtml, hiddenRender, objectUrls>>

\* startConversion up to its first await: the extractor has been called
startConversion ==
  IF file = NoFile THEN UNCHANGED vars
  ELSE /\ Len(attempts) < MaxAttempts
       /\ conversion' = ConversionOf("converting", 10)
       /\ attempts' = Append(attempts, AttemptOf("extract", file, targetFormat, <<>>, <<>>))
       /\ extractorCalls' = extractorCalls \cup {file.name}
       /\ UNCHANGED <<file, targetFormat, previewHtml, hiddenRender, objectUrls>>

reset ==
  /\ objectUrls' = IF conversion.resultUrl # 0
                   THEN RevokeObjectURL(objectUrls, conversion.resultUrl)
                   ELSE objectUrls
  /\ file' = NoFile
  /\ conversion' = ConversionOf("idle", 0)
  /\ previewHtml' = <<>>
  /\ UNCHANGED <<targetFormat, hiddenRender, attempts, extractorCalls>>

(***************************************************************************)
(* startConversion after each await.                                       *)
(***************************************************************************)
\* an exception inside the try block: the catch block runs and the call returns
Throw(a, message) ==
  /\ conversion' = CatchConversion(message)
  /\ attempts' = [attempts EXCEPT ![a] = Returned]
  /\ UNCHANGED <<file, targetFormat, previewHtml, hiddenRender, objectUrls, extractorCalls>>

\* finalBlob is built: the result is published and the call returns
Complete(a, finalBlob) ==
  /\ objectUrls' = CreateObjectURL(objectUrls, finalBlob)
  /\ conversion' = CompletedConversion(Len(objectUrls) + 1,
                     ResultName(attempts[a].file.name, attempts[a].targetFormat))
  /\ attempts' = [attempts EXCEPT ![a] = Returned]
  /\ UNCHANGED <<file, targetFormat, previewHtml, hiddenRender, extractorCalls>>

\* the extractor settles: preview, progress 50, the render surface, then the delay.
\* hiddenRenderRef.current is the div the component always renders, so the throw
\* on a missing container is never taken
ExtractionSettled(a, outcome) ==
  /\ attempts[a].pc = "extract"
  /\ LET r == reconstructContentToHtml(attempts[a].file, outcome)
     IN  IF r.ok
         THEN /\ previewHtml' = r.html
              /\ conversion' = ExtractedConversion(conversion)
              /\ hiddenRender' = RenderRoot(r.html)
              /\ attempts' = [attempts EXCEPT ![a].pc = "delay", ![a].htmlContent = r.html]
              /\ UNCHANGED <<file, targetFormat, objectUrls, extractorCalls>>
         ELSE Throw(a, r.message)

\* the 800 ms delay elapses: the text families are encoded at once, the raster
\* families call html2canvas on the render root
DelayElapsed(a) ==
  /\ attempts[a].pc = "delay"
  /\ LET fmt == attempts[a].targetFormat
         htmlContent == attempts[a].htmlContent
     IN  IF fmt \in {"PDF", "JPG", "PNG"}
         THEN IF ~RenderRootPresent THEN Throw(a, "export node lost")
              ELSE /\ attempts' = [attempts EXCEPT ![a].pc = "capture",
                                                   ![a].canvas = hiddenRender]
                   /\ UNCHANGED <<file, targetFormat, conversion, previewHtml, hiddenRender,
                                  objectUrls, extractorCalls>>
         ELSE IF fmt = "DOCX"
              THEN Complete(a, BlobOf("application/msword", DocxEncode(htmlContent), <<>>, <<>>))
              ELSE IF fmt = "MD"
                   THEN Complete(a, BlobOf("text/markdown;charset=utf-8",
                                           MdEncode(htmlContent), <<>>, <<>>))
                   ELSE Complete(a, BlobOf("text/plain;charset=utf-8",
                                           TxtEncode(htmlContent), <<>>, <<>>))

\* html2canvas settles: the PDF is paginated at once, the image branch fetches the
\* data URL of the canvas
CaptureSettled(a, shot) ==
  /\ attempts[a].pc = "capture"
  /\ IF ~shot.ok THEN Throw(a, shot.message)
     ELSE IF attempts[a].targetFormat = "PDF"
          THEN Complete(a, PdfBlobOf(attempts[a].canvas, shot.pdfHeight, shot.pageHeight,
                                     Paginate(shot.pdfHeight, shot.pageHeight)))
          ELSE /\ attempts' = [attempts EXCEPT ![a].pc = "fetch"]
               /\ UNCHANGED <<file, targetFormat, conversion, previewHtml, hiddenRender,
                              objectUrls, extractorCalls>>

\* fetch(dataUrl) settles
FetchSettled(a, settlement) ==
  /\ attempts[a].pc = "fetch"
  /\ IF settlement # "" THEN Throw(a, IF settlement = "?" THEN "" ELSE settlement)
     ELSE /\ attempts' = [attempts EXCEPT ![a].pc = "blob"]
          /\ UNCHANGED <<file, targetFormat, conversion, previewHtml, hiddenRender,
                         objectUrls, extractorCalls>>

\* res.blob() settles
BlobSettled(a, settlement) ==
  /\ attempts[a].pc = "blob"
  /\ IF settlement # "" THEN Throw(a, IF settlement = "?" THEN "" ELSE settlement)
     ELSE Complete(a, BlobOf(ImageMime(attempts[a].targetFormat), <<>>,
                             attempts[a].canvas, <<>>))

(***************************************************************************)
(* What the component renders: the controls a user can reach.              *)
(***************************************************************************)
\* the upload view, with its drop zone and file input
DropZoneRendered == file = NoFile /\ conversion.status # "error"

\* the buttons that call reset: in the error panel and beside the download link
ResetButtonRendered ==
  /\ ~DropZoneRendered
  /\ conversion.status = "error" \/ conversion.status = "completed"

\* FormatButtonsEnabled when the buttons are disabled in completed only
FormatButtonsEnabledUnlessCompleted ==
  /\ ~DropZoneRendered
  /\ conversion.status # "error"
  /\ ~(conversion.status = "completed")

\* the format buttons are rendered and not disabled
FormatButtonsEnabled ==
  /\ ~DropZoneRendered
  /\ conversion.status # "error"
  /\ ~(conversion.status = "converting" \/ conversion.status = "completed")

\* StartButtonRendered when the button is rendered in every status but error
StartButtonRenderedUnlessError ==
  /\ ~DropZoneRendered
  /\ conversion.status # "error"

\* the button that calls startConversion
StartButtonRendered ==
  /\ ~DropZoneRendered
  /\ conversion.status # "error"
  /\ conversion.status = "idle"

FileLists == {<<>>} \cup {<<u>> : u \in Uploads}

SelectFiles == \E files \in FileLists : DropZoneRendered /\ handleFiles(files)
ClickFormat == \E fmt \in FORMATS : FormatButtonsEnabled /\ setTargetFormat(fmt)
ClickStart == StartButtonRendered /\ startConversion
ClickReset == ResetButtonRendered /\ reset

ExtractionSettles(outcomes) ==
  \E a \in DOMAIN attempts : \E outcome \in outcomes : ExtractionSettled(a, outcome)
DelayElapses == \E a \in DOMAIN attempts : DelayElapsed(a)
CaptureSettles(shots) ==
  \E a \in DOMAIN attempts : \E shot \in shots : CaptureSettled(a, shot)
FetchSettles(settlements) ==
  \E a \in DOMAIN attempts : \E s \in settlements : FetchSettled(a, s)
BlobSettles(settlements) ==
  \E a \in DOMAIN attempts : \E s \in settlements : BlobSettled(a, s)

\* an awaited step of some attempt settles
Settles ==
  \/ ExtractionSettles(Outcomes)
  \/ DelayElapses
  \/ CaptureSettles(Shots)
  \/ FetchSettles(Settlements)
  \/ BlobSettles(Settlements)

\* the application as rendered
Next ==
  \/ SelectFiles
  \/ ClickFormat
  \/ ClickStart
  \/ ClickReset
  \/ Settles

Spec == Init /\ [][Next]_vars

(***************************************************************************)
(* The handlers called in any order, as a caller of the component's        *)
(* functions (a test, another view) may call them: no control has to be    *)
(* rendered. The inputs are a part of those of Spec.                       *)
(***************************************************************************)
HandlerFileLists == {<<>>, <<LegacyDocUpload>>, <<DottedTxtUpload>>}
HandlerFormats == {"PDF", "PNG", "DOCX"}
HandlerOutcomes == {OutcomeOf("text", ScriptFragment, ""), OutcomeOf("reject", <<>>, "")}
HandlerShots == {ShotOf(TRUE, 2, 1, ""), ShotOf(FALSE, 0, 0, "")}
HandlerSettlements == {"", "?"}

CallHandleFiles == \E files \in HandlerFileLists : handleFiles(files)
CallSetTargetFormat == \E fmt \in HandlerFormats : setTargetFormat(fmt)
CallStartConversion == startConversion
CallReset == reset

HandlerSettles ==
  \/ ExtractionSettles(HandlerOutcomes)
  \/ DelayElapses
  \/ CaptureSettles(HandlerShots)
  \/ FetchSettles(HandlerSettlements)
  \/ BlobSettles(HandlerSettlements)

NextHandlers ==
  \/ CallHandleFiles
  \/ CallSetTargetFormat
  \/ CallStartConversion
  \/ CallReset
  \/ HandlerSettles

SpecHandlers == Init /\ [][NextHandlers]_vars

(***************************************************************************)
(* The encoders of the text families on their own: an attempt on a plain   *)
(* text file whose extractor has answered with a fragment built from the   *)
(* tags of the prompt's allowlist, one state for each fragment, and the    *)
(* step that encodes it.                                                   *)
(***************************************************************************)
\* the tags the prompt of the extractor allows, as the model may write them, and a
\* character of text
AllowlistTokens ==
  { <<"<", "h", "1", ">">>, <<"<", "/", "h", "1", ">">>,
    <<"<", "h", "2", ">">>, <<"<", "/", "h", "2", ">">>,
    <<"<", "p", ">">>, <<"<", "/", "p", ">">>,
    <<"<", "b", "r", "/", ">">>, <<"<", "B", "R", ">">>,
    <<"<", "u", "l", ">">>, <<"<", "/", "u", "l", ">">>,
    <<"<", "l", "i", ">">>, <<"<", "/", "l", "i", ">">>,
    <<"<", "s", "t", "r", "o", "n", "g", ">">>,
    <<"a">> }

\* the characters of a sequence of tokens
RECURSIVE Flatten(_, _)
Flatten(tokens, i) == IF i > Len(tokens) THEN <<>> ELSE tokens[i] \o Flatten(tokens, i + 1)

\* the fragments of at most MaxTokens tokens, and the two fragments of Responses
\* built from the allowlist; each is a response the clean-up leaves as it is
Fragments ==
  {f \in {Flatten(ts, 1) : ts \in UNION {[1..n -> AllowlistTokens] : n \in 1..MaxTokens}}
          \cup {HeadingFragment, ListFragment} :
     CleanResponse(f) = f /\ f # <<>>}

\* the text families that are rewritten tag by tag
EncodedFormats == {"MD", "TXT"}

\* startConversion on a.b.txt has awaited the extractor, which answered f
InitEncode ==
  \E f \in Fragments : \E fmt \in EncodedFormats :
    /\ file = DottedTxtUpload
    /\ targetFormat = fmt
    /\ conversion = ExtractedConversion(ConversionOf("converting", 10))
    /\ previewHtml = f
    /\ hiddenRender = RenderRoot(f)
    /\ attempts = <<AttemptOf("delay", DottedTxtUpload, fmt, f, <<>>)>>
    /\ objectUrls = <<>>
    /\ extractorCalls = {DottedTxtUpload.name}

NextEncode == DelayElapses

SpecEncode == InitEncode /\ [][NextEncode]_vars

(***************************************************************************)
(* Properties.                                                             *)
(***************************************************************************)
Status == conversion.status

\* the object URLs that still hold their Blob
LiveUrls == {u \in DOMAIN objectUrls : ~objectUrls[u].revoked}

\* the attempts that have not returned
InFlight == {a \in DOMAIN attempts : attempts[a].pc # "returned"}

\* some attempt takes a step after an await (startConversion only appends)
AttemptStep == Len(attempts') = Len(attempts) /\ attempts' # attempts

\* C1: a PDF of image height H and page height P has floor(H/P) + 1 pages when H is
\* no multiple of P and H/P pages when it is: no trailing blank page
PagesWanted(H, P) == IF H % P = 0 THEN H \div P ELSE (H \div P) + 1

C1_PageCount ==
  \A u \in LiveUrls :
    objectUrls[u].blob.type = "application/pdf" =>
      Len(objectUrls[u].blob.pages)
        = PagesWanted(objectUrls[u].blob.pdfHeight, objectUrls[u].blob.pageHeight)

\* C2: after a reset (or a new selection) during an attempt, what the attempt's
\* awaited steps yield is discarded: with no file and the status idle, a step of an
\* attempt writes neither the conversion state, nor the preview, nor a result
C2_StaleResultDiscarded ==
  [][(Status = "idle" /\ AttemptStep)
       => (conversion' = conversion /\ previewHtml' = previewHtml
             /\ objectUrls' = objectUrls)]_vars

\* C3: every object URL created and no longer held by the conversion state has
\* been revoked
C3_ResultsReleased ==
  \A u \in DOMAIN objectUrls : u # conversion.resultUrl => objectUrls[u].revoked

\* every awaited step settles: the claim's own assumption
LiveSpec == Spec /\ WF_vars(Settles)

\* C4: an attempt that enters converting ends in completed or in error, and an
\* attempt that ends without publishing a result ends in error with a message
C4_AttemptEnds ==
  /\ (Status = "converting") ~> (Status \in {"completed", "error"})
  /\ [][\A a \in DOMAIN attempts :
          (attempts[a].pc # "returned" /\ attempts'[a].pc = "returned"
             /\ objectUrls' = objectUrls)
            => (conversion'.status = "error" /\ conversion'.error # "")]_vars

\* an attempt failed after its extraction had succeeded
C4_FailedAfterExtraction ==
  /\ Status = "error"
  /\ attempts # <<>> /\ InFlight = {}
  /\ previewHtml # <<>>

\* the transitions the claim names
NamedTransition(from, to) ==
  \/ from = "idle" /\ to = "converting"
  \/ from = "converting" /\ to \in {"completed", "error"}
  \/ from \in {"completed", "error"} /\ to = "idle"

EndsInDotDoc(name) ==
  /\ Len(name) >= 4
  /\ ToLowerCase(SubSeq(name, Len(name) - 3, Len(name))) = <<".", "d", "o", "c">>

\* C6: a selected file whose name ends in .doc (any case) is rejected with the
\* guidance message and is not stored; no such file is ever stored or handed to the
\* extractor
C6_LegacyDocRejected ==
  /\ [](/\ ~EndsInDotDoc(file.name)
        /\ \A n \in extractorCalls : ~EndsInDotDoc(n)
        /\ \A a \in DOMAIN attempts : ~EndsInDotDoc(attempts[a].file.name))
  /\ [][\A u \in Uploads :
          (EndsInDotDoc(u.name) /\ DropZoneRendered /\ handleFiles(<<u>>))
            => /\ conversion'.status = "error"
               /\ conversion'.error = DocUnsupportedMessage
               /\ file' = file
               /\ extractorCalls' = extractorCalls]_vars

\* a .doc file was rejected at selection, and .docx files went to the extractor
C6_DocRejectedDocxExtracted ==
  /\ Status = "error" /\ conversion.error = DocUnsupportedMessage
  /\ file = NoFile
  /\ DocxUpload.name \in extractorCalls

\* C7: a result is held exactly in completed; in completed the preview is not
\* empty; in error there is a message and no result
C7_ResultIffCompleted ==
  /\ conversion.resultUrl # 0 <=> Status = "completed"
  /\ conversion.resultName # <<>> <=> Status = "completed"
  /\ Status = "completed" => previewHtml # <<>> /\ conversion.resultUrl \in LiveUrls
  /\ Status = "error" => conversion.error # ""

\* an attempt failed after extraction: preview and render surface are written, and
\* the state holds the error and no result
C7_ErrorAfterExtraction ==
  /\ Status = "error" /\ conversion.resultUrl = 0
  /\ previewHtml # <<>> /\ hiddenRender # <<>>

\* greatest index <= i of s that holds a dot, 0 when there is none
RECURSIVE LastIndexOfDot(_, _)
LastIndexOfDot(s, i) ==
  IF i < 1 THEN 0 ELSE IF s[i] = "." THEN i ELSE LastIndexOfDot(s, i - 1)

\* name with its extension (the part after the last dot) replaced by the lower-case
\* extension of fmt
WithExtension(name, fmt) ==
  LET d == LastIndexOfDot(name, Len(name))
  IN  (IF d = 0 THEN name ELSE SubSeq(name, 1, d - 1))
        \o <<".">> \o ToLowerCase(FormatChars[fmt])

\* C8: the suggested result name is the source name with its extension replaced by
\* the lower-case extension of the target format
C8_ResultNameKeepsBase ==
  Status = "completed" => conversion.resultName = WithExtension(file.name, targetFormat)

Allowlist ==
  {<<"h", "1">>, <<"h", "2">>, <<"p">>, <<"b", "r">>, <<"u", "l">>, <<"l", "i">>,
   <<"s", "t", "r", "o", "n", "g">>}

TagNameChars ==
  {"a", "b", "c", "d", "e", "f", "g", "h", "i", "j", "k", "l", "m", "n", "o", "p",
   "q", "r", "s", "t", "u", "v", "w", "x", "y", "z", "1", "2", "3", "4", "5", "6"}

\* the run of tag-name characters of s from index i, in lower case
RECURSIVE NameFrom(_, _)
NameFrom(s, i) ==
  IF i <= Len(s) /\ ToLowerChar(s[i]) \in TagNameChars
  THEN <<ToLowerChar(s[i])>> \o NameFrom(s, i + 1)
  ELSE <<>>

\* the name of the opening or closing tag that starts at index i of s
TagNameAt(s, i) ==
  IF i < Len(s) /\ s[i + 1] = "/" THEN NameFrom(s, i + 2) ELSE NameFrom(s, i + 1)

\* the indexes of s where a tag outside the allowlist starts
ForeignTags(s) ==
  {i \in DOMAIN s :
     /\ s[i] = "<"
     /\ TagNameAt(s, i) # <<>>
     /\ IndexOfChar(s, ">", i + 1) # 0
     /\ TagNameAt(s, i) \notin Allowlist}

TextTypes ==
  {"application/msword", "text/markdown;charset=utf-8", "text/plain;charset=utf-8"}

\* C9: no tag outside the allowlist reaches a DOCX, Markdown or plain-text payload
C9_OnlyAllowlistedTags ==
  \A u \in LiveUrls :
    objectUrls[u].blob.type \in TextTypes => ForeignTags(objectUrls[u].blob.text) = {}

\* the MIME type of the payload of each target format
MimeOf(fmt) ==
  CASE fmt = "PDF" -> "application/pdf"
    [] fmt = "DOCX" -> "application/msword"
    [] fmt = "TXT" -> "text/plain;charset=utf-8"
    [] fmt = "JPG" -> "image/jpeg"
    [] fmt = "PNG" -> "image/png"
    [] fmt = "MD" -> "text/markdown;charset=utf-8"

\* C10: targetFormat does not change while the status is converting; the format of
\* the attempt in flight, the encoder branch taken and the extension of the result
\* name are those of targetFormat
C10_FormatFixed ==
  /\ [](\A a \in InFlight : attempts[a].targetFormat = targetFormat)
  /\ [](Status = "completed" =>
          /\ EndsWith(conversion.resultName,
                      <<".">> \o ToLowerCase(FormatChars[targetFormat]))
          /\ objectUrls[conversion.resultUrl].blob.type = MimeOf(targetFormat))
  /\ [][Status = "converting" => targetFormat' = targetFormat]_vars

\* an attempt started with a format other than the initial one has completed
C10_CompletedAsMarkdown ==
  /\ Status = "completed" /\ targetFormat = "MD"
  /\ objectUrls[conversion.resultUrl].blob.type = "text/markdown;charset=utf-8"

\* C11: a call of startConversion while no file is selected changes nothing:
\* status, progress, preview, result, file and target format stay as they
\* are, no attempt starts and the extractor is not called. So every step
\* taken from a state without a file that is a call of startConversion is a
\* stuttering step, no step from such a state adds an attempt or an extractor
\* call or enters converting, and no attempt in flight was started without a
\* file.
C11_NoFileNoStart ==
  /\ [][file = NoFile =>
          /\ startConversion => UNCHANGED vars
          /\ Len(attempts') = Len(attempts)
          /\ extractorCalls' = extractorCalls
          /\ conversion'.status = "converting" => conversion.status = "converting"]_vars
  /\ [](\A a \in DOMAIN attempts :
          attempts[a].pc = "extract" => attempts[a].file # NoFile)

\* no file is selected while a result of an earlier attempt is shown: the
\* call of startConversion has a status, a result and a preview to leave
\* alone
C11_NoFileWithResult ==
  /\ file = NoFile
  /\ Status = "completed"
  /\ conversion.resultUrl # 0
  /\ previewHtml # <<>>
  /\ Len(attempts) < MaxAttempts

\* the Blobs of type application/pdf behind the object URLs not revoked
PdfBlobs ==
  {objectUrls[u].blob : u \in {v \in LiveUrls : objectUrls[v].blob.type = "application/pdf"}}

\* C12: an image lower than one page (0 < H < P) gives a PDF of exactly one
\* page, the image placed at offset 0, and no page after it
C12_ShortImageOnePage ==
  \A b \in PdfBlobs :
    (0 < b.pdfHeight /\ b.pdfHeight < b.pageHeight) => b.pages = <<0>>

\* a PDF was produced from an image lower than one page
C12_ShortImagePaginated ==
  \E b \in PdfBlobs : 0 < b.pdfHeight /\ b.pdfHeight < b.pageHeight

\* the Blob of the result shown, when the status is completed
ResultBlob == objectUrls[conversion.resultUrl].blob

\* what the Markdown encoder is to write for one tag, given in lower case
MdOfTag(tag) ==
  CASE tag = <<"<", "h", "1", ">">> -> <<"#", " ">>
    [] tag = <<"<", "h", "2", ">">> -> <<"#", "#", " ">>
    [] tag \in {<<"<", "/", "h", "1", ">">>, <<"<", "/", "h", "2", ">">>,
                <<"<", "/", "p", ">">>} -> <<"\n", "\n">>
    [] tag \in {<<"<", "b", "r", ">">>, <<"<", "b", "r", "/", ">">>} -> <<"\n">>
    [] tag = <<"<", "l", "i", ">">> -> <<"*", " ">>
    [] tag = <<"<", "/", "l", "i", ">">> -> <<"\n">>
    [] OTHER -> <<>>

\* the Markdown of a fragment whose angle brackets all delimit tags, read tag
\* by tag from index i
RECURSIVE MdExpected(_, _)
MdExpected(s, i) ==
  IF i > Len(s) THEN <<>>
  ELSE IF s[i] = "<"
       THEN The({MdOfTag(ToLowerCase(SubSeq(s, i, j))) \o MdExpected(s, j + 1) :
                   j \in {IndexOfChar(s, ">", i)}})
       ELSE <<s[i]>> \o MdExpected(s, i + 1)

\* C13: the Markdown encoder rewrites headers, paragraphs, line breaks and
\* list items before it strips the other tags: of a fragment built from the
\* allowlisted tags, h1 becomes "# " and its text and a blank line, h2 "## "
\* likewise, the end of a paragraph a blank line, br a newline, li "* " and
\* its text and a newline, and no tag remains; the fragment
\* <h1>T</h1><p>a<br/>b</p> gives "# T", a blank line, then "a" and "b" on
\* two lines
C13_MarkdownRewrites ==
  (Status = "completed" /\ ResultBlob.type = "text/markdown;charset=utf-8") =>
    /\ ResultBlob.text = MdExpected(previewHtml, 1)
    /\ \A i \in DOMAIN ResultBlob.text : ResultBlob.text[i] \notin {"<", ">"}
    /\ previewHtml = HeadingFragment =>
         ResultBlob.text = <<"#", " ", "T", "\n", "\n", "a", "\n", "b", "\n", "\n">>

\* the fragment with a header and a paragraph of two lines was encoded as
\* Markdown
C13_HeadingEncoded ==
  /\ Status = "completed"
  /\ ResultBlob.type = "text/markdown;charset=utf-8"
  /\ previewHtml = HeadingFragment
  /\ SubSeq(ResultBlob.text, 1, 3) = <<"#", " ", "T">>

\* C14: whatever fragment the Plain-Text encoder is given, its output holds
\* no "<" and no ">"
C14_PlainTextNoAngleBrackets ==
  (Status = "completed" /\ ResultBlob.type = "text/plain;charset=utf-8") =>
    \A i \in DOMAIN ResultBlob.text : ResultBlob.text[i] \notin {"<", ">"}

\* length of the Markdown marker ("## ", "# " or "* ") that begins a line of s at
\* index i, 0 when there is none
MarkerLenAt(s, i) ==
  IF i = 1 \/ s[i - 1] = "\n"
  THEN IF i + 2 <= Len(s) /\ SubSeq(s, i, i + 2) = <<"#", "#", " ">> THEN 3
       ELSE IF i + 1 <= Len(s) /\ SubSeq(s, i, i + 1) \in {<<"#", " ">>, <<"*", " ">>} THEN 2
       ELSE 0
  ELSE 0

\* the Markdown text s from index i on, without its markers
RECURSIVE WithoutMarkers(_, _)
WithoutMarkers(s, i) ==
  IF i > Len(s) THEN <<>>
  ELSE IF MarkerLenAt(s, i) > 0 THEN WithoutMarkers(s, i + MarkerLenAt(s, i))
       ELSE <<s[i]>> \o WithoutMarkers(s, i + 1)

\* C15: of a fragment built from the allowlisted tags, lists and several
\* paragraphs included, the output of the Markdown encoder without its
\* markers "# ", "## " and "* " equals the output of the Plain-Text encoder
C15_MarkdownIsPlainTextPlusMarkers ==
  (Status = "completed" /\ ResultBlob.type = "text/markdown;charset=utf-8") =>
    WithoutMarkers(ResultBlob.text, 1) = TxtEncode(previewHtml)

\* s is empty after trimming
Blank(s) == \A i \in DOMAIN s : s[i] \in Whitespace

\* the text read from f for the extractor is empty or white space only
BlankSource(f) == f.type \notin SUPPORTED_BINARY_MIMES /\ Blank(ExtractedText(f))

\* C16: no attempt completes with reconstructed content that is empty after
\* trimming. An attempt that has passed the extractor holds content that is
\* not blank and comes from a source that is not blank; the status completed
\* shows a preview that is not blank; and an attempt that ends at the
\* extractor (empty answer after the clean-up, blank source text, or a
\* rejection), as every attempt on a blank source does, ends in error with a
\* message, with no Blob encoded and nothing rendered
C16_NeverCompletedEmpty ==
  /\ [](\A a \in DOMAIN attempts :
          attempts[a].pc \notin {"extract", "returned"} =>
            ~Blank(attempts[a].htmlContent) /\ ~BlankSource(attempts[a].file))
  /\ [](Status = "completed" => ~Blank(previewHtml))
  /\ [][\A a \in DOMAIN attempts :
          (attempts[a].pc = "extract" /\ attempts'[a] # attempts[a]
             /\ (BlankSource(attempts[a].file) \/ attempts'[a].pc = "returned"))
            => /\ attempts'[a].pc = "returned"
               /\ conversion'.status = "error"
               /\ conversion'.error # ""
               /\ objectUrls' = objectUrls
               /\ hiddenRender' = hiddenRender
               /\ previewHtml' = previewHtml]_vars

\* an attempt ended because the answer of the extractor was empty after the
\* clean-up
C16_EmptyResponseRejected ==
  /\ Status = "error"
  /\ conversion.error = EmptyResponseMessage
  /\ file # NoFile
  /\ \E a \in DOMAIN attempts : attempts[a].pc = "returned"

\* the content of the render surface after one render of the fragment html
\* into an empty container
RenderedOnce(html) == <<"[div#render-root]">> \o html \o <<"[/div]">>

\* C17: the render surface holds exactly the fragment of the latest render:
\* every write puts there the wrapper around the fragment just extracted
\* (shown as the preview), whatever it held before, so an attempt past the
\* extractor sees what one render of its own fragment into an empty surface
\* gives, and html2canvas is handed that same content
C17_RenderOverwrites ==
  /\ [][hiddenRender' # hiddenRender => hiddenRender' = RenderedOnce(previewHtml')]_vars
  /\ [](\A a \in InFlight :
          attempts[a].pc # "extract" =>
            /\ hiddenRender = RenderedOnce(attempts[a].htmlContent)
            /\ attempts[a].pc # "delay" =>
                 attempts[a].canvas = RenderedOnce(attempts[a].htmlContent))

\* a second render, of the same fragment as the first or of another one, on
\* a surface that held the first
C17_RenderedTwice ==
  /\ Len(attempts) = 2
  /\ attempts[1].pc = "returned"
  /\ attempts[2].pc = "capture"
  /\ objectUrls # <<>>

\* C18: in a PDF of N pages of height P from an image of height H, page 1
\* shows the image at offset 0 and page k >= 2 at offset -(k-1)*P, each page
\* the slice that follows the one before, and N*P >= H: the pages cover the
\* whole image without gap or overlap
C18_PageOffsets ==
  \A b \in PdfBlobs :
    /\ Len(b.pages) >= 1
    /\ \A k \in DOMAIN b.pages : b.pages[k] = 0 - (k - 1) * b.pageHeight
    /\ Len(b.pages) * b.pageHeight >= b.pdfHeight

\* a PDF of three pages or more, of an image that is no multiple of the page
C18_ThreePages ==
  \E b \in PdfBlobs : Len(b.pages) >= 3 /\ b.pdfHeight % b.pageHeight # 0

\* C19: at most one attempt is in flight at any time: attempts are in flight
\* exactly while the status is converting, no attempt starts while the
\* status is converting, and the render surface is only written by a step
\* of the one attempt in flight
C19_SingleAttempt ==
  /\ [](Cardinality(InFlight) <= 1)
  /\ [](InFlight # {} <=> Status = "converting")
  /\ [][Status = "converting" => Len(attempts') = Len(attempts)]_vars
  /\ [][hiddenRender' # hiddenRender =>
          \E a \in InFlight : InFlight = {a} /\ attempts'[a] # attempts[a]]_vars

\* a second attempt is in flight, after the first one has returned
C19_SecondAttemptAlone ==
  /\ Len(attempts) = 2
  /\ attempts[1].pc = "returned"
  /\ attempts[2].pc = "delay"
  /\ Status = "converting"

\* C20: the progress goes with the status: 0 in idle and in error, 10 or 50
\* in converting, 100 in completed. An attempt starts at 10, and while the
\* status is converting the only writes are 10 to 50 and, from 50, the
\* completion at 100 or, from 10 or 50, the failure: the progress never
\* decreases before the attempt ends
C20_ProgressTracksStatus ==
  /\ [](/\ Status \in {"idle", "error"} => conversion.progress = 0
        /\ Status = "converting" => conversion.progress \in {10, 50}
        /\ Status = "completed" => conversion.progress = 100)
  /\ [][(Status # "converting" /\ conversion'.status = "converting")
          => conversion'.progress = 10]_vars
  /\ [][(Status = "converting" /\ conversion' # conversion) =>
          \/ /\ conversion'.status = "converting"
             /\ conversion.progress = 10
             /\ conversion'.progress = 50
          \/ /\ conversion'.status = "completed"
             /\ conversion.progress = 50
             /\ conversion'.progress = 100
          \/ conversion'.status = "error"]_vars

\* a second attempt has reached progress 50, after a first one that ended
C20_SecondAttemptHalfway ==
  /\ Status = "converting"
  /\ conversion.progress = 50
  /\ Len(attempts) = 2
  /\ attempts[1].pc = "returned"
  /\ attempts[2].pc \in {"capture", "fetch", "blob"}

====
